---- MODULE Spec2Model ----
(***************************************************************************)
(* Model of src/mcp_ade_server.py: the JSON schema validator               *)
(* (ade_validate_json_schema and its nested traverse) and the schema-gated *)
(* extraction handler (ade_extract_with_json_schema).                      *)
(*                                                                         *)
(* JSON values are tagged records [kind, s, items]:                        *)
(*   kind = "dict": items is the insertion-ordered sequence of [key, val]  *)
(*   kind = "list": items is the sequence of elements                      *)
(*   kind = "str" / "num": s is the text of the scalar                     *)
(*   kind = "null": Python None                                            *)
(* A path is the sequence of the tokens that the f-strings of traverse     *)
(* concatenate: <<"root", ".", "properties", "[", "0", "]">> stands for    *)
(* the text root.properties[0].  A violation message is the record of the  *)
(* f-string template (rule), the keyword it names (key) and the path.      *)
(***************************************************************************)
EXTENDS Integers, Sequences, FiniteSets, Bags, TLC

(* ------------------------------------------------------------------ *)
(* JSON values                                                         *)
(* ------------------------------------------------------------------ *)
Str(x) == [kind |-> "str", s |-> x, items |-> <<>>]

Num(x) == [kind |-> "num", s |-> x, items |-> <<>>]

Null == [kind |-> "null", s |-> "", items |-> <<>>]

List(xs) == [kind |-> "list", s |-> "", items |-> xs]

Dict(kvs) == [kind |-> "dict", s |-> "", items |-> kvs]

KV(k, v) == [key |-> k, val |-> v]

(* `key in obj` for a dict *)
HasKey(obj, k) == \E i \in DOMAIN obj.items : obj.items[i].key = k

(* obj.get(k): the value of the key, None when absent *)
Get(obj, k) ==
  IF HasKey(obj, k)
  THEN obj.items[CHOOSE i \in DOMAIN obj.items : obj.items[i].key = k].val
  ELSE Null

(* `t in value` for a list: membership by equality *)
InList(t, value) == \E i \in DOMAIN value.items : value.items[i] = t

(* ------------------------------------------------------------------ *)
(* Violation messages and paths                                        *)
(* ------------------------------------------------------------------ *)
RootPath == <<"root">>

(* f"{path}.{key}" *)
PathKey(path, key) == path \o <<".", key>>

(* f"{path}[{i}]", i counted from 0 by enumerate *)
PathIdx(path, i) == path \o <<"[", ToString(i), "]">>

Msg(rule, key, path) == [rule |-> rule, key |-> key, path |-> path]

RootTypeMsg == Msg("Top-level 'type' must be 'object'.", "", <<>>)

DepthMsg(path) == Msg("Schema depth exceeds 5 at path", "", path)

ProhibitedMsg(key, path) == Msg("Prohibited keyword found at path", key, path)

TypeArrayMsg(path) ==
  Msg("Type array at path cannot contain 'object' or 'array'. Use 'anyOf' instead.", "", path)

ObjectMsg(path) == Msg("Object at path must have a 'properties' field.", "", path)

ArrayMsg(path) == Msg("Array at path must have an 'items' field.", "", path)

(* ------------------------------------------------------------------ *)
(* ade_validate_json_schema                                            *)
(* ------------------------------------------------------------------ *)
MaxDepth == 5

prohibited_keywords ==
  {"allOf", "not", "dependentRequired", "dependentSchemas", "if", "then", "else"}

RootTypeCheckAnyNonArray(schema) ==
  IF Get(schema, "type") = Str("array") THEN <<RootTypeMsg>> ELSE <<>>

(* if schema.get("type") != "object": errors.append(...) *)
RootTypeCheck(schema) ==
  IF Get(schema, "type") # Str("object") THEN <<RootTypeMsg>> ELSE <<>>

DepthExceededLate(depth) == depth > MaxDepth + 2

(* if depth > 5 *)
DepthExceeded(depth) == depth > MaxDepth

ProhibitedCheckParentPath(key, path, new_path) ==
  IF key \in prohibited_keywords THEN <<ProhibitedMsg(key, path)>> ELSE <<>>

(* if key in prohibited_keywords: errors.append(... '{key}' ... '{new_path}') *)
ProhibitedCheck(key, path, new_path) ==
  IF key \in prohibited_keywords THEN <<ProhibitedMsg(key, new_path)>> ELSE <<>>

TypeArrayCheckAnyList(key, value, new_path) ==
  IF key = "type" /\ value.kind = "list" THEN <<TypeArrayMsg(new_path)>> ELSE <<>>

(* if key == "type" and isinstance(value, list)
      and any(t in value for t in ["object", "array"]) *)
TypeArrayCheck(key, value, new_path) ==
  IF /\ key = "type"
     /\ value.kind = "list"
     /\ \E t \in {"object", "array"} : InList(Str(t), value)
  THEN <<TypeArrayMsg(new_path)>>
  ELSE <<>>

ObjectCheckNoPropertiesTest(obj, path) ==
  IF Get(obj, "type") = Str("object") THEN <<ObjectMsg(path)>> ELSE <<>>

(* if obj.get("type") == "object" and "properties" not in obj *)
ObjectCheck(obj, path) ==
  IF Get(obj, "type") = Str("object") /\ ~HasKey(obj, "properties")
  THEN <<ObjectMsg(path)>>
  ELSE <<>>

(* if obj.get("type") == "array" and "items" not in obj *)
ArrayCheck(obj, path) ==
  IF Get(obj, "type") = Str("array") /\ ~HasKey(obj, "items")
  THEN <<ArrayMsg(path)>>
  ELSE <<>>

RECURSIVE traverse(_, _, _)
RECURSIVE TraverseDict(_, _, _, _)
RECURSIVE TraverseList(_, _, _, _)

(* for key, value in obj.items(): the body for the pairs i..len, in order *)
TraverseDict(obj, path, depth, i) ==
  IF i > Len(obj.items) THEN <<>>
  ELSE LET key      == obj.items[i].key
           value    == obj.items[i].val
           new_path == PathKey(path, key)
       IN  ProhibitedCheck(key, path, new_path)
           \o TypeArrayCheck(key, value, new_path)
           \o ObjectCheck(obj, path)
           \o ArrayCheck(obj, path)
           \o traverse(value, new_path, depth + 1)
           \o TraverseDict(obj, path, depth, i + 1)

(* for i, item in enumerate(obj): the body for the elements i..len *)
TraverseList(obj, path, depth, i) ==
  IF i > Len(obj.items) THEN <<>>
  ELSE traverse(obj.items[i], PathIdx(path, i - 1), depth + 1)
       \o TraverseList(obj, path, depth, i + 1)

traverseNoReturn(obj, path, depth) ==
  (IF DepthExceeded(depth) THEN <<DepthMsg(path)>> ELSE <<>>)
  \o (IF obj.kind = "dict" THEN TraverseDict(obj, path, depth, 1)
      ELSE IF obj.kind = "list" THEN TraverseList(obj, path, depth, 1)
      ELSE <<>>)

(* traverse(obj, path, depth): the messages it appends to errors, in order *)
traverse(obj, path, depth) ==
  IF DepthExceeded(depth) THEN <<DepthMsg(path)>>
  ELSE IF obj.kind = "dict" THEN TraverseDict(obj, path, depth, 1)
  ELSE IF obj.kind = "list" THEN TraverseList(obj, path, depth, 1)
  ELSE <<>>

SuccessLiteral == "Schema is valid according to ADE documentation rules."

FailureHeader == "Schema validation failed:"

Range(seq) == {seq[i] : i \in DOMAIN seq}

RECURSIVE BagOfSeq(_)
BagOfSeq(seq) ==
  IF seq = <<>> THEN EmptyBag
  ELSE SetToBag({Head(seq)}) (+) BagOfSeq(Tail(seq))

FormatReportNoDedup(errs) ==
  IF errs = <<>>
  THEN [mark |-> "ok", header |-> SuccessLiteral, bullets |-> EmptyBag]
  ELSE [mark |-> "cross", header |-> FailureHeader, bullets |-> BagOfSeq(errs)]

(* if not errors: return success literal
   else: "\n".join(f"- {e}" for e in set(errors)) under the failure header.
   The bullet lines are a bag: the iteration order of a set is unspecified. *)
FormatReport(errs) ==
  IF errs = <<>>
  THEN [mark |-> "ok", header |-> SuccessLiteral, bullets |-> EmptyBag]
  ELSE [mark |-> "cross", header |-> FailureHeader, bullets |-> SetToBag(Range(errs))]

NoReport == [mark |-> "none", header |-> "", bullets |-> EmptyBag]

(* The whole handler.  schema.get on a value that is not a dict raises
   AttributeError before anything is appended. *)
ade_validate_json_schema(schema) ==
  IF schema.kind # "dict"
  THEN [raised |-> TRUE, errors |-> <<>>, result |-> NoReport]
  ELSE LET errs == RootTypeCheck(schema) \o traverse(schema, RootPath, 1)
       IN  [raised |-> FALSE, errors |-> errs, result |-> FormatReport(errs)]

(* ------------------------------------------------------------------ *)
(* ade_extract_with_json_schema                                        *)
(* ------------------------------------------------------------------ *)
GateBlocksNever(validation_result) == FALSE

(* if "❌" in validation_result: the cross mark occurs in the failure header
   and nowhere in the success literal *)
GateBlocks(validation_result) == validation_result.mark = "cross"

NoResponse == [kind |-> "none", embedded |-> NoReport]

(* f"Schema validation failed. Please fix the schema before extraction.\n{validation_result}" *)
RejectedResponse(validation_result) ==
  [kind |-> "Schema validation failed. Please fix the schema before extraction.",
   embedded |-> validation_result]

(* f"Error during JSON schema extraction: {str(e)}" *)
ErrorResponse == [kind |-> "Error during JSON schema extraction:", embedded |-> NoReport]

(* "❌ No results returned." *)
EmptyResponse == [kind |-> "No results returned.", embedded |-> NoReport]

(* json.dumps(response, indent=2) *)
JsonResponse == [kind |-> "json", embedded |-> NoReport]

(* ------------------------------------------------------------------ *)
(* Inputs: the schemas of the docstrings and of the documented         *)
(* scenarios, roots that are not mappings, and nests of schema nodes   *)
(* around a leaf, up to MaxWrap layers.                                *)
(* ------------------------------------------------------------------ *)
MaxWrap == 4

TString == Dict(<<KV("type", Str("string"))>>)

TNumber == Dict(<<KV("type", Str("number"))>>)

(* Example Valid Schema of ade_validate_json_schema *)
ExampleValidSchema ==
  Dict(<<KV("type", Str("object")),
         KV("properties", Dict(<<
            KV("invoice_number", TString),
            KV("items", Dict(<<
               KV("type", Str("array")),
               KV("items", Dict(<<
                  KV("type", Str("object")),
                  KV("properties", Dict(<<KV("name", TString),
                                          KV("price", TNumber)>>))>>))>>))>>))>>)

(* Example Schema of ade_extract_with_json_schema *)
ExampleExtractSchema ==
  Dict(<<KV("type", Str("object")),
         KV("properties", Dict(<<
            KV("company_name", Dict(<<KV("type", Str("string")),
                                      KV("description", Str("Name of the company"))>>)),
            KV("total_amount", Dict(<<KV("type", Str("number")),
                                      KV("description", Str("Total amount on the invoice"))>>)),
            KV("line_items", Dict(<<
               KV("type", Str("array")),
               KV("items", Dict(<<
                  KV("type", Str("object")),
                  KV("properties", Dict(<<KV("description", TString),
                                          KV("quantity", TNumber),
                                          KV("price", TNumber)>>))>>))>>))>>))>>)

Scenario1 ==
  Dict(<<KV("type", Str("object")), KV("properties", Dict(<<KV("name", TString)>>))>>)

Scenario2 == Dict(<<KV("type", Str("array")), KV("items", TString)>>)

Scenario3 ==
  Dict(<<KV("type", Str("object")),
         KV("properties", Dict(<<KV("x", Dict(<<KV("type", Str("object"))>>))>>))>>)

Scenario4 ==
  Dict(<<KV("type", Str("object")), KV("allOf", List(<<>>)), KV("properties", Dict(<<>>))>>)

Scenario5 ==
  Dict(<<KV("type", Str("object")),
         KV("properties", Dict(<<
            KV("a", Dict(<<KV("type", List(<<Str("object"), Str("string")>>))>>))>>))>>)

DocSchemas ==
  {ExampleValidSchema, ExampleExtractSchema,
   Scenario1, Scenario2, Scenario3, Scenario4, Scenario5}

NonMappingRoots == {Null, List(<<>>), Str("object"), Num("3")}

Leaves ==
  {Str("string"),
   Null,
   Dict(<<>>),
   TString,
   Dict(<<KV("type", Str("object"))>>),
   Dict(<<KV("type", Str("array")), KV("description", Str("d"))>>),
   Dict(<<KV("type", List(<<Str("object"), Str("string")>>))>>),
   Dict(<<KV("type", List(<<Str("string"), Str("null")>>))>>),
   Dict(<<KV("type", List(<<Str("array")>>)), KV("items", TString)>>),
   Dict(<<KV("allOf", List(<<>>)), KV("type", Str("object")), KV("properties", Dict(<<>>))>>),
   Dict(<<KV("type", Str("object")), KV("properties", Dict(<<>>)), KV("not", TString)>>)}

WrapProperties(v) ==
  Dict(<<KV("type", Str("object")), KV("properties", Dict(<<KV("x", v)>>))>>)

WrapItems(v) == Dict(<<KV("type", Str("array")), KV("items", v)>>)

WrapList(v) == List(<<TString, v>>)

WrapIf(v) == Dict(<<KV("type", Str("object")), KV("if", v), KV("description", Str("d"))>>)

Wrappings(v) == {WrapProperties(v), WrapItems(v), WrapList(v), WrapIf(v)}

RECURSIVE Nests(_)
Nests(n) ==
  IF n = 0 THEN Leaves
  ELSE LET inner == Nests(n - 1)
       IN  inner \cup UNION {Wrappings(v) : v \in inner}

Schemas == DocSchemas \cup NonMappingRoots \cup Nests(MaxWrap)

(* ------------------------------------------------------------------ *)
(* State                                                               *)
(* ------------------------------------------------------------------ *)
VARIABLES
  schema,             \* the schema argument of the tool call
  pc,                 \* position of the running handler
  tool,               \* which tool was invoked
  errors,             \* the errors list of ade_validate_json_schema
  validation_result,  \* what ade_validate_json_schema returned
  raised,             \* ade_validate_json_schema raised instead of returning
  events,             \* calls and returns, in order
  response,           \* what ade_extract_with_json_schema returned
  heap,               \* the objects of a schema that is given by reference
  stack,              \* the active calls of traverse, innermost last
  sys_stdout,         \* the stream sys.stdout refers to
  sys_stderr,         \* the stream sys.stderr refers to
  closed,             \* the streams that were closed
  blocks              \* the `with SuppressOutput()` block of each tool call

walkVars == <<heap, stack>>

outputVars == <<sys_stdout, sys_stderr, closed, blocks>>

vars == <<schema, pc, tool, errors, validation_result, raised, events, response,
          heap, stack, sys_stdout, sys_stderr, closed, blocks>>

(* the streams of the process before any redirection *)
OrigStdout == "stdout"

OrigStderr == "stderr"

NoWalk == heap = <<>> /\ stack = <<>>

NoBlocks ==
  /\ sys_stdout = OrigStdout
  /\ sys_stderr = OrigStderr
  /\ closed = {}
  /\ blocks = <<>>

Init ==
  /\ schema \in Schemas
  /\ pc = "idle"
  /\ tool = "none"
  /\ errors = <<>>
  /\ validation_result = NoReport
  /\ raised = FALSE
  /\ events = <<>>
  /\ response = NoResponse
  /\ NoWalk
  /\ NoBlocks

(* The tool ade_validate_json_schema called by the client: the whole handler *)
ValidateTool ==
  /\ pc = "idle"
  /\ LET r == ade_validate_json_schema(schema)
     IN  /\ errors' = r.errors
         /\ validation_result' = r.result
         /\ raised' = r.raised
         /\ events' = events \o <<"validate:call">>
                      \o (IF r.raised THEN <<"validate:raise">> ELSE <<"validate:return">>)
  /\ tool' = "validate"
  /\ pc' = "returned"
  /\ UNCHANGED <<schema, response, walkVars, outputVars>>

(* validation_result = await ade_validate_json_schema(ctx, schema);
   an exception goes to the except clause of the handler *)
ExtractValidate ==
  /\ pc = "idle"
  /\ LET r == ade_validate_json_schema(schema)
     IN  /\ errors' = r.errors
         /\ validation_result' = r.result
         /\ raised' = r.raised
         /\ events' = events \o <<"validate:call">>
                      \o (IF r.raised THEN <<"validate:raise">> ELSE <<"validate:return">>)
         /\ pc' = IF r.raised THEN "returned" ELSE "gate"
         /\ response' = IF r.raised THEN ErrorResponse ELSE response
  /\ tool' = "extract"
  /\ UNCHANGED <<schema, walkVars, outputVars>>

(* if "❌" in validation_result: return the rejection *)
ExtractGate ==
  /\ pc = "gate"
  /\ IF GateBlocks(validation_result)
     THEN /\ response' = RejectedResponse(validation_result)
          /\ pc' = "returned"
     ELSE /\ response' = response
          /\ pc' = "configured"
  /\ UNCHANGED <<schema, tool, errors, validation_result, raised, events,
                 walkVars, outputVars>>

(* config_obj = ParseConfig(...); with SuppressOutput():
   asyncio.to_thread(parse, base64.b64decode(pdf_base64), config=config_obj).
   b64decode raises on an undecodable document before parse is called. *)
ExtractDispatch(decodable) ==
  /\ pc = "configured"
  /\ IF decodable
     THEN /\ events' = events \o <<"parse:call">>
          /\ pc' = "parsing"
          /\ response' = response
     ELSE /\ events' = events \o <<"b64decode:raise">>
          /\ pc' = "returned"
          /\ response' = ErrorResponse
  /\ UNCHANGED <<schema, tool, errors, validation_result, raised,
                 walkVars, outputVars>>

(* the engine answers: no results, results, or an exception *)
EngineReturn(outcome) ==
  /\ pc = "parsing"
  /\ events' = events \o <<"parse:" \o outcome>>
  /\ response' = CASE outcome = "empty" -> EmptyResponse
                   [] outcome = "results" -> JsonResponse
                   [] OTHER -> ErrorResponse
  /\ pc' = "returned"
  /\ UNCHANGED <<schema, tool, errors, validation_result, raised,
                 walkVars, outputVars>>

Next ==
  \/ ValidateTool
  \/ ExtractValidate
  \/ ExtractGate
  \/ \E decodable \in BOOLEAN : ExtractDispatch(decodable)
  \/ \E outcome \in {"empty", "results", "raise"} : EngineReturn(outcome)

Spec == Init /\ [][Next]_vars

(* ------------------------------------------------------------------ *)
(* The walk of traverse, call by call, on schemas given by reference:  *)
(* a mapping or sequence may contain itself.  heap maps the identity of *)
(* each object to its value; a child that is an object is a Ref.        *)
(* ------------------------------------------------------------------ *)
MaxObjs == 2

ObjIds == {"o" \o ToString(i) : i \in 1..MaxObjs}

Ref(id) == [kind |-> "ref", s |-> id, items |-> <<>>]

(* the Python value a name or a slot refers to *)
Deref(v) == IF v.kind = "ref" THEN heap[v.s] ELSE v

Refs == {Ref(id) : id \in ObjIds}

MappingObjects ==
  {TString}
  \cup {Dict(<<KV("type", Str("object")), KV("properties", c)>>) : c \in Refs}
  \cup {Dict(<<KV("if", c), KV("items", d)>>) : c \in Refs, d \in Refs}

SequenceObjects == {List(<<Str("string"), c>>) : c \in Refs}

(* the root object "o1" is a mapping: schema.get raises on anything else *)
Heaps ==
  {h \in [ObjIds -> MappingObjects \cup SequenceObjects] : h["o1"] \in MappingObjects}

(* one call of traverse(obj, path, depth); i is the position of its loop *)
Frame(obj, path, depth) == [obj |-> obj, path |-> path, depth |-> depth, i |-> 1]

Top == stack[Len(stack)]

Caller == SubSeq(stack, 1, Len(stack) - 1)

InitWalk ==
  /\ heap \in Heaps
  /\ schema = Ref("o1")
  /\ pc = "idle"
  /\ tool = "none"
  /\ errors = <<>>
  /\ validation_result = NoReport
  /\ raised = FALSE
  /\ events = <<>>
  /\ response = NoResponse
  /\ stack = <<>>
  /\ NoBlocks

(* errors = []; the root type test; traverse(schema, "root", 1) is called *)
WalkCall ==
  /\ pc = "idle"
  /\ tool' = "validate"
  /\ events' = events \o <<"validate:call">>
  /\ IF Deref(schema).kind # "dict"
     THEN /\ raised' = TRUE
          /\ pc' = "returned"
          /\ UNCHANGED <<errors, stack>>
     ELSE /\ errors' = RootTypeCheck(Deref(schema))
          /\ stack' = <<Frame(schema, RootPath, 1)>>
          /\ pc' = "walking"
          /\ UNCHANGED raised
  /\ UNCHANGED <<schema, validation_result, response, heap, outputVars>>

(* if depth > 5: errors.append(...); return *)
TraverseCeiling ==
  /\ pc = "walking"
  /\ stack # <<>>
  /\ DepthExceeded(Top.depth)
  /\ errors' = errors \o <<DepthMsg(Top.path)>>
  /\ stack' = Caller
  /\ UNCHANGED <<schema, pc, tool, validation_result, raised, events, response,
                 heap, outputVars>>

(* one turn of `for key, value in obj.items()`, up to the recursive call *)
TraverseDictItem ==
  /\ pc = "walking"
  /\ stack # <<>>
  /\ ~DepthExceeded(Top.depth)
  /\ Deref(Top.obj).kind = "dict"
  /\ Top.i <= Len(Deref(Top.obj).items)
  /\ LET obj      == Deref(Top.obj)
         key      == obj.items[Top.i].key
         value    == obj.items[Top.i].val
         new_path == PathKey(Top.path, key)
     IN  /\ errors' = errors
                      \o ProhibitedCheck(key, Top.path, new_path)
                      \o TypeArrayCheck(key, Deref(value), new_path)
                      \o ObjectCheck(obj, Top.path)
                      \o ArrayCheck(obj, Top.path)
         /\ stack' = Caller \o <<[Top EXCEPT !.i = @ + 1],
                                 Frame(value, new_path, Top.depth + 1)>>
  /\ UNCHANGED <<schema, pc, tool, validation_result, raised, events, response,
                 heap, outputVars>>

(* one turn of `for i, item in enumerate(obj)`: the recursive call *)
TraverseListItem ==
  /\ pc = "walking"
  /\ stack # <<>>
  /\ ~DepthExceeded(Top.depth)
  /\ Deref(Top.obj).kind = "list"
  /\ Top.i <= Len(Deref(Top.obj).items)
  /\ stack' = Caller \o <<[Top EXCEPT !.i = @ + 1],
                          Frame(Deref(Top.obj).items[Top.i],
                                PathIdx(Top.path, Top.i - 1), Top.depth + 1)>>
  /\ UNCHANGED <<schema, pc, tool, errors, validation_result, raised, events,
                 response, heap, outputVars>>

(* the loop is exhausted, or obj is neither a dict nor a list: return *)
TraverseReturn ==
  /\ pc = "walking"
  /\ stack # <<>>
  /\ ~DepthExceeded(Top.depth)
  /\ \/ Deref(Top.obj).kind \notin {"dict", "list"}
     \/ Top.i > Len(Deref(Top.obj).items)
  /\ stack' = Caller
  /\ UNCHANGED <<schema, pc, tool, errors, validation_result, raised, events,
                 response, heap, outputVars>>

(* the outermost traverse has returned: the report is built and returned *)
WalkReport ==
  /\ pc = "walking"
  /\ stack = <<>>
  /\ validation_result' = FormatReport(errors)
  /\ events' = events \o <<"validate:return">>
  /\ pc' = "returned"
  /\ UNCHANGED <<schema, tool, errors, raised, response, walkVars, outputVars>>

NextWalk ==
  \/ WalkCall
  \/ TraverseCeiling
  \/ TraverseDictItem
  \/ TraverseListItem
  \/ TraverseReturn
  \/ WalkReport

(* the handler is straight-line synchronous code: it always takes its next step *)
SpecWalk == InitWalk /\ [][NextWalk]_vars /\ WF_vars(NextWalk)

(* ------------------------------------------------------------------ *)
(* SuppressOutput around the awaited engine call, for tool calls that  *)
(* the event loop runs concurrently.  __enter__ and __exit__ have no   *)
(* await inside and run atomically; the tasks interleave at the await. *)
(* ------------------------------------------------------------------ *)
MaxCalls == 3

Calls == 1..MaxCalls

SuppressingTools == {"ade_extract_raw_chunks", "ade_extract_with_json_schema"}

(* the file objects that open(os.devnull, 'w') returns in __enter__ of call c *)
DevNullOut(c) == "devnull:stdout:" \o ToString(c)

DevNullErr(c) == "devnull:stderr:" \o ToString(c)

NoStream == ""

InitSuppress ==
  /\ schema = Null
  /\ pc = "idle"
  /\ tool = "none"
  /\ errors = <<>>
  /\ validation_result = NoReport
  /\ raised = FALSE
  /\ events = <<>>
  /\ response = NoResponse
  /\ NoWalk
  /\ sys_stdout = OrigStdout
  /\ sys_stderr = OrigStderr
  /\ closed = {}
  /\ blocks \in [Calls -> {[pc |-> "called", tool |-> t,
                            old_stdout |-> NoStream, old_stderr |-> NoStream] :
                             t \in SuppressingTools}]

(* SuppressOutput.__enter__, then asyncio.to_thread(parse, ...) is awaited *)
Enter(c) ==
  /\ blocks[c].pc = "called"
  /\ blocks' = [blocks EXCEPT ![c].pc = "awaiting",
                              ![c].old_stdout = sys_stdout,
                              ![c].old_stderr = sys_stderr]
  /\ sys_stdout' = DevNullOut(c)
  /\ sys_stderr' = DevNullErr(c)
  /\ UNCHANGED <<schema, pc, tool, errors, validation_result, raised, events,
                 response, walkVars, closed>>

(* parse finishes in its thread (with results or an exception): the task
   becomes ready to resume *)
EngineDone(c) ==
  /\ blocks[c].pc = "awaiting"
  /\ blocks' = [blocks EXCEPT ![c].pc = "resumable"]
  /\ UNCHANGED <<schema, pc, tool, errors, validation_result, raised, events,
                 response, walkVars, sys_stdout, sys_stderr, closed>>

(* SuppressOutput.__exit__: closes whatever sys.stdout and sys.stderr refer
   to now, then restores the streams saved by this block's __enter__ *)
Exit(c) ==
  /\ blocks[c].pc = "resumable"
  /\ closed' = closed \cup {sys_stdout, sys_stderr}
  /\ sys_stdout' = blocks[c].old_stdout
  /\ sys_stderr' = blocks[c].old_stderr
  /\ blocks' = [blocks EXCEPT ![c].pc = "exited"]
  /\ UNCHANGED <<schema, pc, tool, errors, validation_result, raised, events,
                 response, walkVars>>

NextSuppress ==
  \/ \E c \in Calls : Enter(c)
  \/ \E c \in Calls : EngineDone(c)
  \/ \E c \in Calls : Exit(c)

SpecSuppress == InitSuppress /\ [][NextSuppress]_vars

(* ------------------------------------------------------------------ *)
(* Vocabulary of the properties                                        *)
(* ------------------------------------------------------------------ *)
RECURSIVE NodesOf(_, _, _)
(* every value of the tree under v, with its path and its depth *)
NodesOf(v, path, depth) ==
  {[path |-> path, depth |-> depth, val |-> v]}
  \cup (IF v.kind = "dict"
        THEN UNION {NodesOf(v.items[i].val, PathKey(path, v.items[i].key), depth + 1) :
                      i \in DOMAIN v.items}
        ELSE IF v.kind = "list"
        THEN UNION {NodesOf(v.items[i], PathIdx(path, i - 1), depth + 1) :
                      i \in DOMAIN v.items}
        ELSE {})

AllNodes == NodesOf(schema, RootPath, 1)

(* the mapping nodes whose keys the walk inspects: those within the ceiling *)
VisitedMappings == {n \in AllNodes : n.val.kind = "dict" /\ n.depth <= 5}

Keys(obj) == {obj.items[i].key : i \in DOMAIN obj.items}

Count(seq, m) == Cardinality({i \in DOMAIN seq : seq[i] = m})

Reported == Range(errors)

ValidatorReturned == "validate:return" \in Range(events)

StrictlyExtends(q, p) == Len(q) > Len(p) /\ SubSeq(q, 1, Len(p)) = p

IsDepthMsg(m) == m = DepthMsg(m.path)

(* ------------------------------------------------------------------ *)
(* Properties                                                          *)
(* ------------------------------------------------------------------ *)

(* C1: in ade_extract_with_json_schema on a mapping schema, the engine is
   called only after the validator has returned and only if it reported the
   schema valid; with a decodable document a valid report always leads to
   the engine call; on a violation the engine is never called and the
   returned payload embeds the failure report. *)
C1_EngineIffValid ==
  (tool = "extract" /\ schema.kind = "dict") =>
    /\ \A i \in DOMAIN events :
         events[i] = "parse:call" =>
           /\ \E j \in 1..(i - 1) : events[j] = "validate:return"
           /\ validation_result.mark = "ok"
    /\ (pc = "returned" /\ "b64decode:raise" \notin Range(events)) =>
         ("parse:call" \in Range(events) <=> validation_result.mark = "ok")
    /\ (pc = "returned" /\ validation_result.mark = "cross") =>
         /\ "parse:call" \notin Range(events)
         /\ response = RejectedResponse(validation_result)
         /\ response.embedded.header = FailureHeader

C1_Witness ==
  /\ tool = "extract"
  /\ pc = "returned"
  /\ validation_result.mark = "cross"
  /\ response.embedded = validation_result
  /\ events = <<"validate:call", "validate:return">>

(* C2: for a mapping schema, the root-type violation is reported exactly
   when the root `type` is not the string "object"; it makes the report a
   failure, and the `type` of a nested node never causes it. *)
C2_RootType ==
  ValidatorReturned =>
    /\ (Get(schema, "type") # Str("object")) =>
         /\ RootTypeMsg \in Reported
         /\ validation_result.mark = "cross"
         /\ RootTypeMsg \in BagToSet(validation_result.bullets)
    /\ (Get(schema, "type") = Str("object")) => RootTypeMsg \notin Reported

C2_Witness ==
  /\ ValidatorReturned
  /\ Get(schema, "type") = Str("array")
  /\ RootTypeMsg \in Reported
  /\ Count(errors, RootTypeMsg) = 1
  /\ \E n \in AllNodes : n.depth > 1 /\ n.val.kind = "dict"
                         /\ Get(n.val, "type") = Str("array")

(* C3 as stated: every occurrence of a prohibited key, at any depth, is
   reported once at the path of the key. *)
C3_ProhibitedAnyDepth ==
  ValidatorReturned =>
    \A n \in AllNodes :
      n.val.kind = "dict" =>
        \A k \in Keys(n.val) \cap {"allOf", "not", "dependentRequired",
                                   "dependentSchemas", "if", "then", "else"} :
          Count(errors, ProhibitedMsg(k, PathKey(n.path, k))) = 1

(* C3 amended: every occurrence of a prohibited key on a mapping node at
   depth 5 or less is reported once at the path of the key, and a
   prohibited-keyword violation is reported for nothing else. *)
C3_ProhibitedWithinCeiling ==
  ValidatorReturned =>
    /\ \A n \in VisitedMappings :
         \A k \in Keys(n.val) \cap {"allOf", "not", "dependentRequired",
                                    "dependentSchemas", "if", "then", "else"} :
           Count(errors, ProhibitedMsg(k, PathKey(n.path, k))) = 1
    /\ \A m \in Reported :
         m = ProhibitedMsg(m.key, m.path) =>
           \E n \in VisitedMappings :
             /\ m.key \in Keys(n.val)
             /\ m.key \in {"allOf", "not", "dependentRequired",
                           "dependentSchemas", "if", "then", "else"}
             /\ m.path = PathKey(n.path, m.key)

C3_Witness ==
  /\ ValidatorReturned
  /\ \E n \in VisitedMappings :
       /\ n.depth = 5
       /\ HasKey(n.val, "if")
       /\ ProhibitedMsg("if", PathKey(n.path, "if")) \in Reported
  /\ ProhibitedMsg("if", <<"root", ".", "if">>) \in Reported

(* C4: a mapping node within the ceiling has the object-completeness
   violation at its own path exactly when its `type` is "object" and it has
   no `properties` key, and the array-completeness violation at its own path
   exactly when its `type` is "array" and it has no `items` key. *)
C4_Completeness ==
  ValidatorReturned =>
    \A n \in VisitedMappings :
      /\ ObjectMsg(n.path) \in Reported
           <=> (Get(n.val, "type") = Str("object") /\ "properties" \notin Keys(n.val))
      /\ ArrayMsg(n.path) \in Reported
           <=> (Get(n.val, "type") = Str("array") /\ "items" \notin Keys(n.val))

C4_Witness ==
  /\ ValidatorReturned
  /\ \E n \in VisitedMappings :
       /\ n.depth > 1
       /\ ObjectMsg(n.path) \in Reported
       /\ "properties" \notin Keys(n.val)
  /\ \E n \in VisitedMappings :
       /\ ArrayMsg(n.path) \in Reported
       /\ "items" \notin Keys(n.val)
  /\ \E n \in VisitedMappings :
       /\ Get(n.val, "type") = Str("object")
       /\ ObjectMsg(n.path) \notin Reported

(* C5: for a mapping node within the ceiling that has a `type` key, the
   type-union violation at <node path>.type is reported exactly when the
   value of `type` is a sequence that contains "object" or "array". *)
C5_TypeUnion ==
  ValidatorReturned =>
    \A n \in VisitedMappings :
      "type" \in Keys(n.val) =>
        (TypeArrayMsg(PathKey(n.path, "type")) \in Reported
           <=> /\ Get(n.val, "type").kind = "list"
               /\ \/ Str("object") \in Range(Get(n.val, "type").items)
                  \/ Str("array") \in Range(Get(n.val, "type").items))

C5_Witness ==
  /\ ValidatorReturned
  /\ \E n \in VisitedMappings :
       /\ n.depth > 1
       /\ Get(n.val, "type") = List(<<Str("object"), Str("string")>>)
       /\ TypeArrayMsg(PathKey(n.path, "type")) \in Reported
  /\ \E n \in VisitedMappings :
       /\ Get(n.val, "type") = Str("object")
       /\ TypeArrayMsg(PathKey(n.path, "type")) \notin Reported

(* C6: the schemas that the docstrings present as valid are reported valid. *)
C6_DocExamplesValid ==
  (ValidatorReturned /\ schema \in {ExampleValidSchema, ExampleExtractSchema}) =>
    validation_result.mark = "ok"

(* C7: every value at depth 6 under containers gets one depth-exceeded
   violation at its path, recorded once, and no violation of any rule has a
   path that strictly extends the path of a depth-exceeded violation. *)
C7_CeilingStopsDescent ==
  ValidatorReturned =>
    /\ \A n \in AllNodes : n.depth = 6 => Count(errors, DepthMsg(n.path)) = 1
    /\ \A m \in Reported :
         IsDepthMsg(m) =>
           /\ \E n \in AllNodes : n.depth > 5 /\ n.path = m.path
           /\ \A q \in Reported : ~StrictlyExtends(q.path, m.path)

C7_Witness ==
  /\ ValidatorReturned
  /\ \E n \in AllNodes :
       /\ n.depth = 6
       /\ DepthMsg(n.path) \in Reported
       /\ \E d \in AllNodes :
            /\ d.depth > 6
            /\ StrictlyExtends(d.path, n.path)
            /\ d.val.kind = "dict"
            /\ HasKey(d.val, "if")
            /\ Get(d.val, "type") = Str("object")

(* C8: the validator returns a report for every input, and a root that is
   not a mapping is reported as the single root-type violation. *)
C8_Total ==
  (tool = "validate" /\ pc = "returned") =>
    /\ ~raised
    /\ schema.kind # "dict" =>
         /\ errors = <<RootTypeMsg>>
         /\ validation_result.mark = "cross"

(* C9: the report is the success literal exactly when no violation was
   recorded; otherwise it is the failure header with one bullet per distinct
   recorded message, each exactly once, none lost. *)
C9_ReportDeduplicated ==
  ValidatorReturned =>
    /\ (validation_result.header = SuccessLiteral /\ validation_result.mark = "ok")
         <=> errors = <<>>
    /\ errors = <<>> => validation_result.bullets = EmptyBag
    /\ errors # <<>> =>
         /\ validation_result.header = FailureHeader
         /\ validation_result.mark = "cross"
         /\ BagToSet(validation_result.bullets) = Reported
         /\ \A m \in Reported : CopiesIn(m, validation_result.bullets) = 1

C9_Witness ==
  /\ ValidatorReturned
  /\ \E m \in Reported :
       /\ m = ObjectMsg(m.path)
       /\ Count(errors, m) >= 3
       /\ CopiesIn(m, validation_result.bullets) = 1
  /\ Cardinality(Reported) >= 2

(* C10: a depth-exceeded violation is recorded only for a mapping or a
   sequence; a scalar value never produces one. *)
C10_DepthOnlyForContainers ==
  ValidatorReturned =>
    \A n \in AllNodes :
      DepthMsg(n.path) \in Reported => n.val.kind \in {"dict", "list"}

(* C11: on every schema with a mapping root, cyclic ones included, no call
   of traverse is ever active at depth greater than 6, a call at depth
   greater than 5 returns without recursing, and the validator eventually
   returns a report. *)
C11_WalkTerminates ==
  /\ [](\A k \in DOMAIN stack : stack[k].depth <= 6)
  /\ [][(stack # <<>> /\ Top.depth > 5) => stack' = Caller]_vars
  /\ <>(pc = "returned" /\ ~raised /\ validation_result.mark \in {"ok", "cross"})

C11_Witness ==
  /\ pc = "returned"
  /\ validation_result.mark = "cross"
  /\ \E id \in ObjIds :
       /\ heap[id].kind = "dict"
       /\ \E k \in DOMAIN heap[id].items : heap[id].items[k].val = Ref(id)
  /\ \E m \in Range(errors) : m = DepthMsg(m.path) /\ Len(m.path) = 11

(* C12: whatever the interleaving of overlapping SuppressOutput blocks,
   no __exit__ ever closes the original streams, and once every block has
   exited sys.stdout and sys.stderr refer to the original streams again. *)
C12_StreamsRestored ==
  /\ OrigStdout \notin closed
  /\ OrigStderr \notin closed
  /\ (\A c \in Calls : blocks[c].pc = "exited") =>
       /\ sys_stdout = OrigStdout
       /\ sys_stderr = OrigStderr

====
